---- MODULE Spec2Model ----
(***************************************************************************)
(* Model of episode-music-mood (src/main.go): the command line program     *)
(* that resolves an episode to a version, the version to records, the      *)
(* records to external links, the SPOTIFY links to track IDs, fetches the  *)
(* audio features and analysis of every track and prints the averaged      *)
(* mood, or prints an error envelope and exits.                            *)
(***************************************************************************)
EXTENDS Integers, Sequences, FiniteSets, TLC

(***************************************************************************)
(* float32 arithmetic.  A finite value is m * 2^e with m odd (or m = 0 and *)
(* e = 0); the quotient 0/0 is NaN.  Every operation rounds its exact      *)
(* result to MantissaBits significant bits, ties to even, as IEEE 754      *)
(* single precision does.  The exponent range is not modelled: the inputs  *)
(* below stay far from overflow and underflow.                             *)
(***************************************************************************)
MantissaBits == 24

Abs(n) == IF n < 0 THEN -n ELSE n

Sign(n) == IF n < 0 THEN -1 ELSE 1

Min(a, b) == IF a <= b THEN a ELSE b

NaN == [nan |-> TRUE, m |-> 0, e |-> 0]

RECURSIVE Norm(_, _)
\* the canonical form of m * 2^e
Norm(m, e) ==
    IF m = 0 THEN [nan |-> FALSE, m |-> 0, e |-> 0]
    ELSE IF m % 2 = 0 THEN Norm(m \div 2, e + 1)
    ELSE [nan |-> FALSE, m |-> m, e |-> e]

F(m, e) == Norm(m, e)

Zero == F(0, 0)

\* a / d (a >= 0, d > 0) rounded to the nearest integer, ties to even
RoundHalfEven(a, d) ==
    LET q == a \div d
        r == a % d
    IN  IF 2 * r > d THEN q + 1
        ELSE IF 2 * r < d THEN q
        ELSE q + (q % 2)

RECURSIVE ScaleDown(_, _, _)
\* the least k with a < n * 2^(MantissaBits + k)
ScaleDown(a, n, k) ==
    IF a < n * 2^MantissaBits * 2^k THEN k ELSE ScaleDown(a, n, k + 1)

RECURSIVE ScaleUp(_, _, _)
\* the greatest j with a * 2^j < n * 2^MantissaBits
ScaleUp(a, n, j) ==
    IF a * 2^(j + 1) < n * 2^MantissaBits THEN ScaleUp(a, n, j + 1) ELSE j

\* (a / n) * 2^e, a and n integers, n > 0, rounded to MantissaBits bits
RoundQuot(a, n, e) ==
    IF a = 0 THEN Zero
    ELSE LET k == ScaleDown(Abs(a), n, 0)
         IN  IF k > 0
             THEN Norm(Sign(a) * RoundHalfEven(Abs(a), n * 2^k), e + k)
             ELSE LET j == ScaleUp(Abs(a), n, 0)
                  IN  Norm(Sign(a) * RoundHalfEven(Abs(a) * 2^j, n), e - j)

FAdd(x, y) ==
    IF x.nan \/ y.nan THEN NaN
    ELSE LET e == Min(x.e, y.e)
         IN  RoundQuot(x.m * 2^(x.e - e) + y.m * 2^(y.e - e), 1, e)

FNeg(x) == IF x.nan THEN NaN ELSE Norm(-x.m, x.e)

FSub(x, y) == FAdd(x, FNeg(y))

FMul(x, y) ==
    IF x.nan \/ y.nan THEN NaN
    ELSE RoundQuot(x.m * y.m, 1, x.e + y.e)

\* x / y; the program divides by a zero count only when the sum is zero too
FDiv(x, y) ==
    IF x.nan \/ y.nan \/ y.m = 0 THEN NaN
    ELSE RoundQuot(Sign(y.m) * x.m, Abs(y.m), x.e - y.e)

\* float32(n) of a small integer n
FInt(n) == RoundQuot(n, 1, 0)

IsNaN(x) == x.nan


(***************************************************************************)
(* Bounds of the model and the small sets the collaborators answer from.   *)
(***************************************************************************)
MaxArgs == 2
MaxEpisodes == 2
MaxVersions == 2
MaxRecords == 2
\* the links of all records of a run together
MaxLinks == 2
MaxSelectLinks == 3
MaxMoodTracks == 3

SeqUpTo(S, n) == UNION {[1..k -> S] : k \in 0..n}

EpisodeIDs == {"epid1"}

VersionIDs == {"vpid1", "vpid2"}

RecordIDs == {"rec1", "rec2"}

\* type version, type episode, type iblEpisodesResponse
VersionT == [ID : VersionIDs]

EpisodeT == [Versions : SeqUpTo(VersionT, MaxVersions)]

IblEpisodesResponse == [Episodes : SeqUpTo(EpisodeT, MaxEpisodes)]

\* type playlisterSegment, type playlisterResponse
PlaylisterResponse == [Segments : SeqUpTo([RecordID : RecordIDs], MaxRecords)]

\* link values are strings, modelled as sequences of characters
WellFormedA == <<"s", ":", "t", ":", "a">>

WellFormedB == <<"s", ":", "t", ":", "b">>

FourSegments == <<"s", ":", "t", ":", "a", ":", "b">>

TwoSegments == <<"s", ":", "t">>

NoSegments == <<>>

\* type externalLink: the links the music service answers with in a run
RunLinks ==
    { [Type |-> "SPOTIFY", Value |-> WellFormedA],
      [Type |-> "SPOTIFY", Value |-> TwoSegments],
      [Type |-> "OTHER", Value |-> WellFormedB] }

\* the links track selection is checked on
SelectLinks ==
    [Type : {"SPOTIFY", "spotify", "OTHER"},
     Value : {WellFormedA, WellFormedB, FourSegments, TwoSegments, NoSegments}]

(***************************************************************************)
(* strings.Split(value, ":"): the segments between the colons; a string    *)
(* without a colon, the empty one included, is one segment.                *)
(***************************************************************************)
RECURSIVE Split(_)
Split(s) ==
    IF \A i \in 1..Len(s) : s[i] # ":" THEN <<s>>
    ELSE LET i == CHOOSE j \in 1..Len(s) :
                      s[j] = ":" /\ \A k \in 1..(j - 1) : s[k] # ":"
         IN  <<SubSeq(s, 1, i - 1)>> \o Split(SubSeq(s, i + 1, Len(s)))

(***************************************************************************)
(* getVersionID's decision on the decoded response: the value and the      *)
(* error it returns.                                                       *)
(***************************************************************************)
NoError == "<nil>"

\* a slip: the last version of the first episode instead of the first
getVersionID_LastVersion(epResp1) ==
    IF Len(epResp1.Episodes) < 1
    THEN [id |-> "nil", err |-> "Episode not found"]
    ELSE IF Len(epResp1.Episodes[1].Versions) < 1
    THEN [id |-> "nil", err |-> "No Version available"]
    ELSE [id |-> epResp1.Episodes[1].Versions[Len(epResp1.Episodes[1].Versions)].ID,
          err |-> NoError]

\* a slip: an episode without versions yields the placeholder and no error
getVersionID_NoVersionCheck(epResp1) ==
    IF Len(epResp1.Episodes) < 1
    THEN [id |-> "nil", err |-> "Episode not found"]
    ELSE IF Len(epResp1.Episodes[1].Versions) < 1
    THEN [id |-> "nil", err |-> NoError]
    ELSE [id |-> epResp1.Episodes[1].Versions[1].ID, err |-> NoError]

getVersionID(epResp1) ==
    IF Len(epResp1.Episodes) < 1
    THEN [id |-> "nil", err |-> "Episode not found"]
    ELSE IF Len(epResp1.Episodes[1].Versions) < 1
    THEN [id |-> "nil", err |-> "No Version available"]
    ELSE [id |-> epResp1.Episodes[1].Versions[1].ID, err |-> NoError]

\* getRecordIDs's loop over the decoded segments
getRecordIDs(res) == [i \in 1..Len(res.Segments) |-> res.Segments[i].RecordID]

(***************************************************************************)
(* getMood: the per-track mood, the running float32 sums in list order and *)
(* the two quotients by the count.                                         *)
(***************************************************************************)
\* type spotifyTrackData: the fields of Features and Analysis.Track getMood reads
TrackData(valence, danceability, energy, liveness, loudness, tempo) ==
    [Valence |-> valence, Danceability |-> danceability, Energy |-> energy,
     Liveness |-> liveness, Loudness |-> loudness, Tempo |-> tempo]

Happiness(track) ==
    FMul(FMul(FInt(5), FSub(track.Valence, F(1, -1))),
         FMul(FMul(track.Danceability, track.Energy), track.Liveness))

ChillFactor(track) ==
    FMul(FDiv(track.Tempo, FInt(120)),
         FDiv(FAdd(track.Loudness, FInt(30)), FInt(30)))

TrackMood(track) ==
    [HappinessFactor |-> Happiness(track), ChillFactor |-> ChillFactor(track)]

RECURSIVE SumFrom_SkipLast(_, _, _)
\* a slip: the loop stops one element early
SumFrom_SkipLast(total, vals, i) ==
    IF i >= Len(vals) THEN total
    ELSE SumFrom_SkipLast(FAdd(total, vals[i]), vals, i + 1)

RECURSIVE SumFrom(_, _, _)
\* total = total + moods[i] for i, i+1, ... in order
SumFrom(total, vals, i) ==
    IF i > Len(vals) THEN total
    ELSE SumFrom(FAdd(total, vals[i]), vals, i + 1)

\* a slip: the count is taken as at least one, so no track averages to zero
getMood_EmptyIsZero(tracks) ==
    LET moods == [i \in 1..Len(tracks) |-> TrackMood(tracks[i])]
        totalHappiness ==
            SumFrom(Zero, [i \in 1..Len(moods) |-> moods[i].HappinessFactor], 1)
        totalChillFactor ==
            SumFrom(Zero, [i \in 1..Len(moods) |-> moods[i].ChillFactor], 1)
        totalMoods == FInt(IF Len(moods) = 0 THEN 1 ELSE Len(moods))
    IN  [HappinessFactor |-> FDiv(totalHappiness, totalMoods),
         ChillFactor |-> FDiv(totalChillFactor, totalMoods)]

getMood(tracks) ==
    LET moods == [i \in 1..Len(tracks) |-> TrackMood(tracks[i])]
        totalHappiness ==
            SumFrom(Zero, [i \in 1..Len(moods) |-> moods[i].HappinessFactor], 1)
        totalChillFactor ==
            SumFrom(Zero, [i \in 1..Len(moods) |-> moods[i].ChillFactor], 1)
        totalMoods == FInt(Len(moods))
    IN  [HappinessFactor |-> FDiv(totalHappiness, totalMoods),
         ChillFactor |-> FDiv(totalChillFactor, totalMoods)]

\* main's test of the result before printing it
NoMoodData(mood) == IsNaN(mood.ChillFactor)

\* one track at tempo 120 and loudness 0 (chill 1), valence 1 (happiness 5/2)
PlainTrack == TrackData(F(1, 0), F(1, 0), F(1, 0), F(1, 0), Zero, F(15, 3))

\* a slower, quieter, sadder track: chill 1/4, happiness -5/4
QuietTrack == TrackData(Zero, F(1, -1), F(1, 0), F(1, 0), F(-15, 0), F(15, 2))

\* a track whose chill factor is 2^MantissaBits, beyond which float32 has no odd integers
HugeTrack == TrackData(F(1, 0), F(1, 0), F(1, 0), F(1, 0), Zero, F(15, MantissaBits + 3))

\* the same tempo at loudness -60: chill factor -2^MantissaBits
HugeQuietTrack ==
    TrackData(F(1, 0), F(1, 0), F(1, 0), F(1, 0), F(-15, 2), F(15, MantissaBits + 3))

\* what the streaming service answers with in a run
RunTracks == {PlainTrack}

\* the tracks getMood is checked on
MoodTracks == {PlainTrack, QuietTrack, HugeTrack, HugeQuietTrack}

(***************************************************************************)
(* The state of one run of the process.                                    *)
(*   pc             where main is (it stays there when the process dies)   *)
(*   exit           "running", or how the process ended: "exit0", "exit1"  *)
(*                  (os.Exit(1) of returnError and log.Fatal), "panic2"    *)
(*                  (a runtime panic: no output on stdout, status 2)       *)
(*   args           os.Args[1:]                                            *)
(*   epResp1        the decoded episode response, until getVersionID's     *)
(*                  caller moves on                                        *)
(*   versionID, err what getVersionID returned                             *)
(*   recordIDs, externalLinks, spotifyIDs, tracks    main's lists          *)
(*   linkResps      what getExternalLinks returned, call by call           *)
(*   si             the position of main's loop over externalLinks         *)
(*   stdout         the lines printed                                      *)
(*   calls          the collaborator calls made so far, with their outcome *)
(***************************************************************************)
VARIABLES pc, exit, args, epResp1, versionID, err, recordIDs, linkResps,
          externalLinks, si, spotifyIDs, tracks, stdout, calls

vars == <<pc, exit, args, epResp1, versionID, err, recordIDs, linkResps,
          externalLinks, si, spotifyIDs, tracks, stdout, calls>>

NoResponse == [Episodes |-> <<>>]

ErrorLine(message) == [kind |-> "error", error |-> message, mood |-> getMood(<<>>)]

\* json.Marshal(mood) fails on a NaN and main prints the empty result
MoodLine(mood) ==
    IF IsNaN(mood.ChillFactor) \/ IsNaN(mood.HappinessFactor)
    THEN [kind |-> "empty", error |-> "", mood |-> getMood(<<>>)]
    ELSE [kind |-> "mood", error |-> "", mood |-> mood]

Call(svc, arg, res) == [svc |-> svc, arg |-> arg, res |-> res]

\* returnError: print the envelope, os.Exit(1)
returnError(message) ==
    /\ stdout' = Append(stdout, ErrorLine(message))
    /\ exit' = "exit1"

\* a runtime panic (index out of range, nil dereference): trace on stderr, status 2
Panic ==
    /\ stdout' = stdout
    /\ exit' = "panic2"

\* log.Fatal: the message on stderr, os.Exit(1)
LogFatal ==
    /\ stdout' = stdout
    /\ exit' = "exit1"

\* getConfiguration: the file is read and validated at the start of every stage
ConfigOutcomes == {"ok", "unreadable", "incomplete"}

ConfigMessage(cfg) ==
    IF cfg = "incomplete" THEN "Config incomplete" ELSE "config.json: cannot be read"

Init ==
    /\ pc = "main"
    /\ exit = "running"
    /\ args \in SeqUpTo(EpisodeIDs, MaxArgs)
    /\ epResp1 = NoResponse
    /\ versionID = ""
    /\ err = NoError
    /\ recordIDs = <<>>
    /\ linkResps = <<>>
    /\ externalLinks = <<>>
    /\ si = 1
    /\ spotifyIDs = <<>>
    /\ tracks = <<>>
    /\ stdout = <<>>
    /\ calls = <<>>

\* main, lines 242-245: the argument count
CheckArgs ==
    /\ pc = "main" /\ exit = "running"
    /\ IF Len(args) + 1 # 2
       THEN returnError("Invalid number of arguments") /\ pc' = pc
       ELSE pc' = "getVersionID" /\ UNCHANGED <<stdout, exit>>
    /\ UNCHANGED <<args, epResp1, versionID, err, recordIDs, linkResps,
                   externalLinks, si, spotifyIDs, tracks, calls>>

\* main, lines 246-249, and getVersionID
GetVersionID ==
    /\ pc = "getVersionID" /\ exit = "running"
    /\ \E cfg \in ConfigOutcomes, res \in {"fail", "ok", "unparsable"},
          decoded \in IblEpisodesResponse :
         IF cfg # "ok"
         THEN /\ returnError(ConfigMessage(cfg))
              /\ UNCHANGED <<pc, epResp1, versionID, err, calls>>
         ELSE /\ calls' = Append(calls, Call("episode", args[1], res))
              /\ IF res = "fail"
                 THEN /\ returnError("Failed to get Episode Information")
                      /\ UNCHANGED <<pc, epResp1, versionID, err>>
                 ELSE \* json.Unmarshal's error is dropped: a body it rejects
                      \* leaves whatever it decoded before the error
                      /\ epResp1' = decoded
                      /\ versionID' = getVersionID(decoded).id
                      /\ err' = getVersionID(decoded).err
                      /\ IF err' # NoError
                         THEN returnError(err') /\ pc' = pc
                         ELSE pc' = "getRecordIDs" /\ UNCHANGED <<stdout, exit>>
    /\ UNCHANGED <<args, recordIDs, linkResps, externalLinks, si, spotifyIDs, tracks>>

\* main, line 250, and getRecordIDs
GetRecordIDs ==
    /\ pc = "getRecordIDs" /\ exit = "running"
    /\ \E cfg \in ConfigOutcomes, res \in {"fail", "ok", "unparsable"},
          decoded \in PlaylisterResponse :
         IF cfg # "ok"
         THEN /\ returnError(ConfigMessage(cfg))
              /\ UNCHANGED <<pc, epResp1, recordIDs, calls>>
         ELSE /\ calls' = Append(calls, Call("segments", versionID, res))
              /\ IF res = "fail"
                 THEN /\ returnError("Failed to get Record IDs")
                      /\ UNCHANGED <<pc, epResp1, recordIDs>>
                 ELSE /\ recordIDs' = getRecordIDs(decoded)
                      /\ epResp1' = NoResponse
                      /\ pc' = "getExternalLinks"
                      /\ UNCHANGED <<stdout, exit>>
    /\ UNCHANGED <<args, versionID, err, linkResps, externalLinks, si, spotifyIDs, tracks>>

\* a slip: the links of one record go before those of the earlier ones
AppendLinks_Prepend(links, externalLinksForRecord) == externalLinksForRecord \o links

\* main, lines 255-257: the links of one record go after those of the earlier ones
AppendLinks(links, externalLinksForRecord) == links \o externalLinksForRecord

\* main, lines 253-258, one iteration, and getExternalLinks
GetExternalLinks ==
    /\ pc = "getExternalLinks" /\ exit = "running"
    /\ Len(linkResps) < Len(recordIDs)
    /\ LET recordID == recordIDs[Len(linkResps) + 1]
       IN  \E cfg \in ConfigOutcomes, cert \in {"ok", "fail"}, res \in {"fail", "ok"},
              decoded \in SeqUpTo(RunLinks, MaxLinks - Len(externalLinks)) :
             IF cfg # "ok"
             THEN /\ returnError(ConfigMessage(cfg))
                  /\ UNCHANGED <<linkResps, externalLinks, calls>>
             ELSE IF cert = "fail"
             THEN /\ LogFatal
                  /\ UNCHANGED <<linkResps, externalLinks, calls>>
             ELSE /\ calls' = Append(calls, Call("links", recordID, res))
                  /\ IF res = "fail"
                     THEN /\ returnError("Failed to get External Links")
                          /\ UNCHANGED <<linkResps, externalLinks>>
                     ELSE /\ linkResps' = Append(linkResps, decoded)
                          /\ externalLinks' = AppendLinks(externalLinks, decoded)
                          /\ UNCHANGED <<stdout, exit>>
    /\ UNCHANGED <<pc, args, epResp1, versionID, err, recordIDs, si, spotifyIDs, tracks>>

\* main, line 253: the loop over recordIDs ends
LinksDone ==
    /\ pc = "getExternalLinks" /\ exit = "running"
    /\ Len(linkResps) = Len(recordIDs)
    /\ pc' = "select"
    /\ UNCHANGED <<exit, args, epResp1, versionID, err, recordIDs, linkResps,
                   externalLinks, si, spotifyIDs, tracks, stdout, calls>>

\* a slip: a track ID already selected is not selected again
SelectTrack_Dedup ==
    /\ pc = "select" /\ exit = "running"
    /\ si <= Len(externalLinks)
    /\ LET externalLink == externalLinks[si]
           spotifyIDSegments == Split(externalLink.Value)
       IN  IF externalLink.Type = "SPOTIFY"
           THEN IF Len(spotifyIDSegments) < 3
                THEN Panic /\ UNCHANGED <<si, spotifyIDs>>
                ELSE /\ spotifyIDs' =
                          IF \E k \in 1..Len(spotifyIDs) :
                                 spotifyIDs[k] = spotifyIDSegments[3]
                          THEN spotifyIDs
                          ELSE Append(spotifyIDs, spotifyIDSegments[3])
                     /\ si' = si + 1
                     /\ UNCHANGED <<stdout, exit>>
           ELSE /\ si' = si + 1
                /\ UNCHANGED <<spotifyIDs, stdout, exit>>
    /\ UNCHANGED <<pc, args, epResp1, versionID, err, recordIDs, linkResps,
                   externalLinks, tracks, calls>>

\* main, lines 262-268, one iteration
SelectTrack ==
    /\ pc = "select" /\ exit = "running"
    /\ si <= Len(externalLinks)
    /\ LET externalLink == externalLinks[si]
           spotifyIDSegments == Split(externalLink.Value)
       IN  IF externalLink.Type = "SPOTIFY"
           THEN IF Len(spotifyIDSegments) < 3
                THEN Panic /\ UNCHANGED <<si, spotifyIDs>>
                ELSE /\ spotifyIDs' = Append(spotifyIDs, spotifyIDSegments[3])
                     /\ si' = si + 1
                     /\ UNCHANGED <<stdout, exit>>
           ELSE /\ si' = si + 1
                /\ UNCHANGED <<spotifyIDs, stdout, exit>>
    /\ UNCHANGED <<pc, args, epResp1, versionID, err, recordIDs, linkResps,
                   externalLinks, tracks, calls>>

\* main, line 262: the loop over externalLinks ends
SelectDone ==
    /\ pc = "select" /\ exit = "running"
    /\ si > Len(externalLinks)
    /\ pc' = "getSpotifyData"
    /\ UNCHANGED <<exit, args, epResp1, versionID, err, recordIDs, linkResps,
                   externalLinks, si, spotifyIDs, tracks, stdout, calls>>

\* getSpotifyData, lines 172-183: the configuration and the token
GetToken ==
    /\ pc = "getSpotifyData" /\ exit = "running"
    /\ \E cfg \in ConfigOutcomes, res \in {"fail", "ok"} :
         IF cfg # "ok"
         THEN /\ returnError(ConfigMessage(cfg))
              /\ UNCHANGED <<pc, calls>>
         ELSE /\ calls' = Append(calls, Call("token", "", res))
              /\ IF res = "fail"
                 THEN returnError("couldn't get token") /\ pc' = pc
                 ELSE pc' = "fetch" /\ UNCHANGED <<stdout, exit>>
    /\ UNCHANGED <<args, epResp1, versionID, err, recordIDs, linkResps,
                   externalLinks, si, spotifyIDs, tracks>>

\* getSpotifyData, lines 187-197, one iteration: both fetches, their errors
\* dropped, then the two dereferences
FetchTrack ==
    /\ pc = "fetch" /\ exit = "running"
    /\ Len(tracks) < Len(spotifyIDs)
    /\ LET trackID == spotifyIDs[Len(tracks) + 1]
       IN  \E features \in {"fail", "ok"}, analysis \in {"fail", "ok"},
              track \in RunTracks :
             /\ calls' = calls \o <<Call("features", trackID, features),
                                    Call("analysis", trackID, analysis)>>
             /\ IF features = "fail" \/ analysis = "fail"
                THEN Panic /\ UNCHANGED tracks
                ELSE tracks' = Append(tracks, track) /\ UNCHANGED <<stdout, exit>>
    /\ UNCHANGED <<pc, args, epResp1, versionID, err, recordIDs, linkResps,
                   externalLinks, si, spotifyIDs>>

\* getSpotifyData, lines 187 and 199: the loop over trackIDs ends
FetchDone ==
    /\ pc = "fetch" /\ exit = "running"
    /\ Len(tracks) = Len(spotifyIDs)
    /\ pc' = "getMood"
    /\ UNCHANGED <<exit, args, epResp1, versionID, err, recordIDs, linkResps,
                   externalLinks, si, spotifyIDs, tracks, stdout, calls>>

\* main, lines 271-277: getMood, the NaN test, the result
Aggregate ==
    /\ pc = "getMood" /\ exit = "running"
    /\ LET mood == getMood(tracks)
       IN  IF NoMoodData(mood)
           THEN returnError("No mood data available")
           ELSE stdout' = Append(stdout, MoodLine(mood)) /\ exit' = "exit0"
    /\ UNCHANGED <<pc, args, epResp1, versionID, err, recordIDs, linkResps,
                   externalLinks, si, spotifyIDs, tracks, calls>>

Next ==
    \/ CheckArgs
    \/ GetVersionID
    \/ GetRecordIDs
    \/ GetExternalLinks
    \/ LinksDone
    \/ SelectTrack
    \/ SelectDone
    \/ GetToken
    \/ FetchTrack
    \/ FetchDone
    \/ Aggregate

Spec == Init /\ [][Next]_vars

(***************************************************************************)
(* Track selection on its own: main's loop over any list of links.         *)
(***************************************************************************)
InitSelect ==
    /\ pc = "select"
    /\ exit = "running"
    /\ args = <<"epid1">>
    /\ epResp1 = NoResponse
    /\ versionID = "vpid1"
    /\ err = NoError
    /\ recordIDs = <<>>
    /\ linkResps = <<>>
    /\ externalLinks \in SeqUpTo(SelectLinks, MaxSelectLinks)
    /\ si = 1
    /\ spotifyIDs = <<>>
    /\ tracks = <<>>
    /\ stdout = <<>>
    /\ calls = <<>>

NextSelect == SelectTrack \/ SelectDone

SpecSelect == InitSelect /\ [][NextSelect]_vars

(***************************************************************************)
(* getMood on its own: main's last step on any list of tracks.             *)
(***************************************************************************)
InitMood ==
    /\ pc = "getMood"
    /\ exit = "running"
    /\ args = <<"epid1">>
    /\ epResp1 = NoResponse
    /\ versionID = "vpid1"
    /\ err = NoError
    /\ recordIDs = <<>>
    /\ linkResps = <<>>
    /\ externalLinks = <<>>
    /\ si = 1
    /\ spotifyIDs = <<>>
    /\ tracks \in SeqUpTo(MoodTracks, MaxMoodTracks)
    /\ stdout = <<>>
    /\ calls = <<>>

NextMood == Aggregate

SpecMood == InitMood /\ [][NextMood]_vars
(***************************************************************************)
(* Properties.                                                             *)
(***************************************************************************)
Exited == exit # "running"

\* the episode lookup answered and main has not yet moved past its result
EpisodeAnswered ==
    /\ Len(calls) = 1
    /\ calls[1].svc = "episode"
    /\ calls[1].res # "fail"

\* C1: when the decoded episode response has at least one episode and the
\* first episode at least one version, getVersionID returns the ID of the
\* first version of the first episode and a nil error, whatever else the
\* response holds, and main goes on to the segment lookup.
C1_FirstVersionOfFirstEpisode ==
    (/\ EpisodeAnswered
     /\ Len(epResp1.Episodes) >= 1
     /\ Len(epResp1.Episodes[1].Versions) >= 1)
    => /\ versionID = epResp1.Episodes[1].Versions[1].ID
       /\ err = NoError
       /\ pc = "getRecordIDs"

\* C1 witness: two episodes, the first with two different versions, and the
\* first one's first version was returned, not the others
C1_Witness ==
    /\ EpisodeAnswered
    /\ Len(epResp1.Episodes) = 2
    /\ Len(epResp1.Episodes[1].Versions) = 2
    /\ epResp1.Episodes[1].Versions[2].ID # epResp1.Episodes[1].Versions[1].ID
    /\ Len(epResp1.Episodes[2].Versions) >= 1
    /\ epResp1.Episodes[2].Versions[1].ID # epResp1.Episodes[1].Versions[1].ID
    /\ versionID = epResp1.Episodes[1].Versions[1].ID

\* C2: when the decoded episode response has no episode, or its first
\* episode no version, getVersionID returns an error ("Episode not found",
\* or the distinct "No Version available"), the process prints exactly that
\* message in the error envelope and exits with status 1 inside stage 1:
\* the episode lookup is the only collaborator call of the run.
C2_NoEpisodeOrVersionFails ==
    LET noEpisode == Len(epResp1.Episodes) < 1
        noVersion == ~noEpisode /\ Len(epResp1.Episodes[1].Versions) < 1
        message == IF noEpisode THEN "Episode not found" ELSE "No Version available"
    IN  (EpisodeAnswered /\ (noEpisode \/ noVersion))
        => /\ err = message
           /\ err # NoError
           /\ pc = "getVersionID"
           /\ exit = "exit1"
           /\ stdout = <<ErrorLine(message)>>
           /\ \A i \in 1..Len(calls) : calls[i].svc = "episode"

\* C2 witness: a run that died on an episode with no versions
C2_Witness ==
    /\ EpisodeAnswered
    /\ Len(epResp1.Episodes) >= 1
    /\ Len(epResp1.Episodes[1].Versions) = 0
    /\ exit = "exit1"
    /\ stdout = <<ErrorLine("No Version available")>>

\* C3: when getMood is reached with no track, the run can only end with the
\* error "No mood data available" and status 1; and no line ever printed is
\* a mood holding a NaN (or the empty line a NaN makes of it).
C3_ZeroTracksNoMoodData ==
    /\ (pc = "getMood" /\ tracks = <<>>)
       => IF Exited
          THEN /\ exit = "exit1"
               /\ stdout = <<ErrorLine("No mood data available")>>
          ELSE ENABLED Aggregate
    /\ \A i \in 1..Len(stdout) :
         /\ stdout[i].kind # "empty"
         /\ stdout[i].kind = "mood"
            => /\ ~IsNaN(stdout[i].mood.ChillFactor)
               /\ ~IsNaN(stdout[i].mood.HappinessFactor)

\* C3 witness: links were found, none of them a SPOTIFY link, and the run
\* ended on the error
C3_Witness ==
    /\ pc = "getMood"
    /\ tracks = <<>>
    /\ externalLinks # <<>>
    /\ \A i \in 1..Len(externalLinks) : externalLinks[i].Type # "SPOTIFY"
    /\ exit = "exit1"
    /\ stdout = <<ErrorLine("No mood data available")>>
\* the colons of a link value, and the text between the second colon and
\* the third (or the end)
ColonPositions(value) == {i \in 1..Len(value) : value[i] = ":"}

NthColon(value, n) ==
    CHOOSE i \in ColonPositions(value) :
        Cardinality({j \in ColonPositions(value) : j < i}) = n - 1

ThirdSegment(value) ==
    LET from == NthColon(value, 2) + 1
        to == IF Cardinality(ColonPositions(value)) >= 3
              THEN NthColon(value, 3) - 1
              ELSE Len(value)
    IN  [i \in 1..(to - from + 1) |-> value[from + i - 1]]

\* the positions of the SPOTIFY links among the first n links
SpotifyPositions(n) == {i \in 1..n : externalLinks[i].Type = "SPOTIFY"}

NthSpotifyPosition(n, k) ==
    CHOOSE i \in SpotifyPositions(n) :
        Cardinality({j \in SpotifyPositions(n) : j < i}) = k - 1

\* C4: at every point of the selection loop, and so at its end, the track
\* IDs selected from the links gone through are one per link of type
\* exactly "SPOTIFY", none for another type, each the third colon-delimited
\* segment of its link's value, in the order of the links, duplicates kept.
C4_OneTrackPerSpotifyLink ==
    /\ Len(spotifyIDs) = Cardinality(SpotifyPositions(si - 1))
    /\ \A k \in 1..Len(spotifyIDs) :
         spotifyIDs[k] =
             ThirdSegment(externalLinks[NthSpotifyPosition(si - 1, k)].Value)
    /\ pc \in {"getSpotifyData", "fetch", "getMood"} => si = Len(externalLinks) + 1

\* C4 witness: the loop ended on three links, the same SPOTIFY link twice
\* around a link of type "spotify", and both copies were selected
C4_Witness ==
    /\ pc = "getSpotifyData"
    /\ Len(externalLinks) = 3
    /\ externalLinks[1].Type = "SPOTIFY"
    /\ externalLinks[2].Type = "spotify"
    /\ externalLinks[3] = externalLinks[1]
    /\ externalLinks[1].Value = FourSegments
    /\ spotifyIDs = <<<<"a">>, <<"a">>>>

\* the selection loop stands at a SPOTIFY link with fewer than 3 segments
AtMalformedLink ==
    /\ pc = "select"
    /\ si <= Len(externalLinks)
    /\ externalLinks[si].Type = "SPOTIFY"
    /\ Cardinality(ColonPositions(externalLinks[si].Value)) < 2

\* C5: a SPOTIFY link whose value has fewer than 3 colon-delimited segments
\* ends the run with one error envelope on stdout and a non-zero status.
C5_MalformedLinkFailsCleanly ==
    (AtMalformedLink /\ Exited)
    => /\ exit = "exit1"
       /\ Len(stdout) = 1
       /\ stdout[1].kind = "error"

FetchFailures ==
    {i \in 1..Len(calls) :
        calls[i].svc \in {"features", "analysis"} /\ calls[i].res = "fail"}

\* C6: a failed audio-features or audio-analysis fetch does not end the
\* run: the track is left out and the remaining tracks are aggregated; the
\* run ends with "No mood data available" only when no track is left.
C6_FetchFailureAbsorbed ==
    FetchFailures # {}
    => /\ exit # "panic2"
       /\ Exited
          => IF tracks = <<>>
             THEN exit = "exit1" /\ stdout = <<ErrorLine("No mood data available")>>
             ELSE exit = "exit0" /\ Len(stdout) = 1 /\ stdout[1].kind = "mood"

TransportMessages ==
    {"Failed to get Episode Information", "Failed to get Record IDs",
     "couldn't get token"}

\* C7: an episode lookup, segment lookup or token request that fails, or
\* answers with a body that does not parse, is the last collaborator call
\* of the run, which ends there with a transport or authentication error in
\* the error envelope.
C7_FatalStagesAbort ==
    \A i \in 1..Len(calls) :
        (/\ calls[i].svc \in {"episode", "segments", "token"}
         /\ calls[i].res \in {"fail", "unparsable"})
        => /\ i = Len(calls)
           /\ exit = "exit1"
           /\ Len(stdout) = 1
           /\ stdout[1].kind = "error"
           /\ stdout[1].error \in TransportMessages

\* C8: never more than one line is printed, and a run that has ended has
\* printed exactly one: the error envelope with a non-zero status, or the
\* mood with status zero.
C8_ExactlyOneJsonObject ==
    /\ Len(stdout) <= 1
    /\ Exited
       => /\ Len(stdout) = 1
          /\ \/ stdout[1].kind = "error" /\ exit # "exit0"
             \/ stdout[1].kind = "mood" /\ exit = "exit0"
\* the orderings of a list
Orderings(list) ==
    {[i \in 1..Len(list) |-> list[p[i]]] :
        p \in {q \in [1..Len(list) -> 1..Len(list)] :
                  \A i, j \in 1..Len(list) : i # j => q[i] # q[j]}}

RECURSIVE MinExponent(_, _)
\* the least exponent among vals[i], vals[i+1], ...
MinExponent(vals, i) ==
    IF i > Len(vals) THEN 0
    ELSE IF i = Len(vals) THEN vals[i].e
    ELSE Min(vals[i].e, MinExponent(vals, i + 1))

RECURSIVE ExactTotal(_, _, _)
\* vals[1] + ... + vals[k], exactly, in units of 2^e0
ExactTotal(vals, k, e0) ==
    IF k = 0 THEN 0
    ELSE ExactTotal(vals, k - 1, e0) + vals[k].m * 2^(vals[k].e - e0)

\* n * 2^e0 is a float32: its odd part fits the mantissa
Representable(n, e0) == Abs(Norm(n, e0).m) < 2^MantissaBits

\* no running sum of vals, taken in order, is rounded
RunningSumsExact(vals) ==
    \A k \in 1..Len(vals) :
        Representable(ExactTotal(vals, k, MinExponent(vals, 1)), MinExponent(vals, 1))

\* the arithmetic mean of vals, rounded once
RoundedMean(vals) ==
    RoundQuot(ExactTotal(vals, Len(vals), MinExponent(vals, 1)), Len(vals),
              MinExponent(vals, 1))

HappinessValues(list) == [i \in 1..Len(list) |-> Happiness(list[i])]

ChillValues(list) == [i \in 1..Len(list) |-> ChillFactor(list[i])]

SumsExact(list) ==
    RunningSumsExact(HappinessValues(list)) /\ RunningSumsExact(ChillValues(list))

MeanMood(list) ==
    [HappinessFactor |-> RoundedMean(HappinessValues(list)),
     ChillFactor |-> RoundedMean(ChillValues(list))]

\* getMood ran on a non-empty list and its result was printed
MoodPrinted ==
    /\ pc = "getMood"
    /\ tracks # <<>>
    /\ Exited

\* C9 as stated: the mood printed for a non-empty list of tracks is the
\* arithmetic mean of the per-track values and is the same for every
\* ordering of the list.
C9_MeanAndOrderIndependent ==
    MoodPrinted
    => /\ stdout = <<MoodLine(MeanMood(tracks))>>
       /\ \A other \in Orderings(tracks) : stdout = <<MoodLine(getMood(other))>>

\* C9 amended: the mood printed for a non-empty list of tracks is the
\* arithmetic mean, rounded to float32, whenever no running sum of the list
\* is rounded; and it is the same for every ordering of the list when the
\* list has at most two tracks or no running sum of any ordering is rounded.
C9_MeanWhenSumsExact ==
    MoodPrinted
    => /\ exit = "exit0"
       /\ SumsExact(tracks) => stdout = <<MoodLine(MeanMood(tracks))>>
       /\ (Len(tracks) <= 2 \/ \A other \in Orderings(tracks) : SumsExact(other))
          => \A other \in Orderings(tracks) : stdout = <<MoodLine(getMood(other))>>

\* C9 witness: three tracks, not all the same, whose sums are exact in any
\* order, averaged to chill 3/4 and happiness 5/4
C9_Witness ==
    /\ MoodPrinted
    /\ tracks = <<PlainTrack, QuietTrack, PlainTrack>>
    /\ \A other \in Orderings(tracks) : SumsExact(other)
    /\ stdout = <<MoodLine([HappinessFactor |-> F(5, -2), ChillFactor |-> F(3, -2)])>>

Rank(svc) ==
    CASE svc = "episode" -> 1
      [] svc = "segments" -> 2
      [] svc = "links" -> 3
      [] svc = "token" -> 4
      [] OTHER -> 5

CallsOf(svc) == {i \in 1..Len(calls) : calls[i].svc = svc}

\* the record IDs the link lookups were made for, in call order
LinkLookups ==
    LET first == IF CallsOf("links") = {} THEN 1
                 ELSE CHOOSE i \in CallsOf("links") : \A j \in CallsOf("links") : i <= j
    IN  [k \in 1..Cardinality(CallsOf("links")) |-> calls[first + k - 1].arg]

RECURSIVE Concat(_, _)
\* lists[1] \o ... \o lists[k]
Concat(lists, k) == IF k = 0 THEN <<>> ELSE Concat(lists, k - 1) \o lists[k]

\* the calls are in stage order, and the two lookups of stages 1 and 2 are
\* made at most once
ForwardOnly ==
    /\ \A i, j \in 1..Len(calls) : i < j => Rank(calls[i].svc) <= Rank(calls[j].svc)
    /\ Cardinality(CallsOf("episode")) <= 1
    /\ Cardinality(CallsOf("segments")) <= 1

\* C10 as stated: the calls are in stage order, the episode and segment
\* lookups made at most once, and a run that has ended has made the link
\* lookup exactly once per record ID, in the order of the segment response,
\* its links being the results concatenated in that order.
C10_ExactlyOncePerRecord ==
    /\ ForwardOnly
    /\ Exited
       => /\ LinkLookups = recordIDs
          /\ externalLinks = Concat(linkResps, Len(linkResps))

\* C10 amended: the calls are in stage order, the episode and segment
\* lookups made at most once; the link lookups made so far are for a prefix
\* of the record IDs in the order of the segment response, one per record
\* ID, and for all of them once the run is past the link stage; the links
\* are the results of the answered lookups concatenated in that order.
C10_ForwardAndPrefix ==
    /\ ForwardOnly
    /\ Len(LinkLookups) <= Len(recordIDs)
    /\ LinkLookups = SubSeq(recordIDs, 1, Len(LinkLookups))
    /\ pc \in {"select", "getSpotifyData", "fetch", "getMood"}
       => LinkLookups = recordIDs
    /\ Len(linkResps) = Cardinality({i \in CallsOf("links") : calls[i].res = "ok"})
    /\ externalLinks = Concat(linkResps, Len(linkResps))

\* C10 witness: a run through all five kinds of call that ended with a
\* mood: two different records, each answered with a different link
C10_Witness ==
    /\ exit = "exit0"
    /\ recordIDs = <<"rec2", "rec1">>
    /\ LinkLookups = <<"rec2", "rec1">>
    /\ Len(linkResps) = 2
    /\ Len(linkResps[1]) = 1
    /\ Len(linkResps[2]) = 1
    /\ linkResps[1] # linkResps[2]
    /\ CallsOf("token") # {}
    /\ CallsOf("features") # {}
====
